---- MODULE Spec2Model ----
(***************************************************************************)
(* Model of Server/app.py: the Flask facade in front of the Dobot          *)
(* dashboard / move / feedback clients.                                    *)
(*                                                                         *)
(* Text is modelled as sequences of one-character strings so that          *)
(* str.replace, str.split, the `in` operator and float() are computed,     *)
(* not assumed.  Numbers are exact rationals [n, d] with d > 0.            *)
(***************************************************************************)
EXTENDS Integers, Sequences, FiniteSets, TLC

VARIABLES dashboard, move, feed,   \* the three module-level handles
          connectFault,            \* which constructor raised at start-up (0 = none)
          pc,                      \* per worker: "idle", "calling", "responded"
          request,                 \* per worker: the request being served
          active,                  \* per worker: the remote call it is blocked in
          issued,                  \* per worker: remote calls issued for this request
          returned,                \* per worker: outcomes of those calls, in order
          robotSaid,               \* per worker: the pose shape the robot rendered
          response                 \* per worker: the HTTP response produced

vars == <<dashboard, move, feed, connectFault, pc, request, active, issued,
          returned, robotSaid, response>>

----------------------------------------------------------------------------
(* Bounds *)

NumWorkers == 2
MaxFields == 4
RatioMargin == 2

Workers == 1..NumWorkers

----------------------------------------------------------------------------
(* Python values *)

None == "None"

Rat(n, d) == [type |-> "number", n |-> n, d |-> d]
Num(n) == Rat(n, 1)
Bool(b) == [type |-> "bool", val |-> b]
Str(chars) == [type |-> "string", chars |-> chars]
Arr(elems) == [type |-> "array", elems |-> elems]
Obj(members) == [type |-> "object", members |-> members]
Null == [type |-> "null"]

\* Characters of the literal keys used by the handlers.
KeyChars == [x |-> <<"x">>, y |-> <<"y">>, z |-> <<"z">>, r |-> <<"r">>,
             ratio |-> <<"r", "a", "t", "i", "o">>]

\* sub in s, for two Python strings
IsSubstring(sub, s) ==
    \E i \in 0..(Len(s) - Len(sub)) :
        \A j \in 1..Len(sub) : s[i + j] = sub[j]

\* bool(v) as used by `not data`
Truthy(v) ==
    CASE v.type = "null" -> FALSE
      [] v.type = "bool" -> v.val
      [] v.type = "number" -> v.n # 0
      [] v.type = "string" -> Len(v.chars) > 0
      [] v.type = "array" -> Len(v.elems) > 0
      [] v.type = "object" -> DOMAIN v.members # {}

\* k in data : "True", "False" or "TypeError"
Contains(k, data) ==
    CASE data.type = "object" ->
            IF k \in DOMAIN data.members THEN "True" ELSE "False"
      [] data.type = "string" ->
            IF IsSubstring(KeyChars[k], data.chars) THEN "True" ELSE "False"
      [] data.type = "array" ->
            IF \E i \in 1..Len(data.elems) :
                  /\ data.elems[i].type = "string"
                  /\ data.elems[i].chars = KeyChars[k]
            THEN "True" ELSE "False"
      [] OTHER -> "TypeError"

\* all(k in data for k in keys), evaluated left to right
RECURSIVE AllIn(_, _)
AllIn(keys, data) ==
    IF keys = <<>> THEN "True"
    ELSE LET c == Contains(Head(keys), data)
         IN  IF c = "True" THEN AllIn(Tail(keys), data) ELSE c

\* data[k] is defined for a dict only; str and list indices must be integers
Subscriptable(data) == data.type = "object"

\* 1 <= ratio <= 100 : "True", "False" or "TypeError"
SpeedMin == 1
SpeedMax == 100

InSpeedRange(ratio) ==
    CASE ratio.type = "number" ->
            IF SpeedMin * ratio.d <= ratio.n /\ ratio.n <= SpeedMax * ratio.d
            THEN "True" ELSE "False"
      [] ratio.type = "bool" ->
            IF ratio.val THEN "True" ELSE "False"
      [] OTHER -> "TypeError"

----------------------------------------------------------------------------
(* Request bodies and request.get_json() *)

Missing == [type |-> "missing"]
Malformed == [type |-> "malformed"]

\* Outcomes of request.get_json(): a body without a JSON content type gives
\* None (Flask < 2.1) or aborts with 415 (Flask >= 2.1); unparsable JSON
\* aborts with 400; otherwise the parsed value.
get_json(body) ==
    CASE body.type = "missing" ->
            {[aborted |-> FALSE, code |-> 200, data |-> Null],
             [aborted |-> TRUE, code |-> 415, data |-> Null]}
      [] body.type = "malformed" ->
            {[aborted |-> TRUE, code |-> 400, data |-> Null]}
      [] OTHER ->
            {[aborted |-> FALSE, code |-> 200, data |-> body]}

----------------------------------------------------------------------------
(* Start-up: lines 37-47 *)

DashboardClient == "DobotApiDashboard"
MoveClient == "DobotApiMove"
FeedClient == "DobotApi"

\* Variant: an except clause that leaves the clients built before the fault.
ConnectAllKeepsEarlier(fault) ==
    [dashboard |-> IF fault \in {0, 2, 3} THEN DashboardClient ELSE None,
     move |-> IF fault \in {0, 3} THEN MoveClient ELSE None,
     feed |-> IF fault = 0 THEN FeedClient ELSE None]

\* The try block constructs the three clients in order; fault = k means the
\* k-th constructor raised, and the except clause then resets all three.
ConnectAll(fault) ==
    IF fault = 0
    THEN [dashboard |-> DashboardClient, move |-> MoveClient, feed |-> FeedClient]
    ELSE [dashboard |-> None, move |-> None, feed |-> None]

----------------------------------------------------------------------------
(* Text helpers used by get_position: str.replace, str.split, float *)

\* s.replace(ch, '')
RECURSIVE RemoveChar(_, _)
RemoveChar(s, ch) ==
    IF s = <<>> THEN <<>>
    ELSE IF Head(s) = ch THEN RemoveChar(Tail(s), ch)
         ELSE <<Head(s)>> \o RemoveChar(Tail(s), ch)

\* s.split(sep) for a one-character separator: always at least one piece
RECURSIVE Split(_, _)
Split(s, sep) ==
    IF s = <<>> THEN << <<>> >>
    ELSE LET rest == Split(Tail(s), sep)
         IN  IF Head(s) = sep
             THEN << <<>> >> \o rest
             ELSE << <<Head(s)>> \o Head(rest) >> \o Tail(rest)

Digits == {"0", "1", "2", "3", "4", "5", "6", "7", "8", "9"}

DigitVal == ("0" :> 0) @@ ("1" :> 1) @@ ("2" :> 2) @@ ("3" :> 3) @@ ("4" :> 4)
            @@ ("5" :> 5) @@ ("6" :> 6) @@ ("7" :> 7) @@ ("8" :> 8) @@ ("9" :> 9)

RECURSIVE Gcd(_, _)
Gcd(a, b) == IF b = 0 THEN a ELSE Gcd(b, a % b)

RECURSIVE Pow10(_)
Pow10(k) == IF k = 0 THEN 1 ELSE 10 * Pow10(k - 1)

\* value of a string of digits
RECURSIVE DigitsValue(_)
DigitsValue(s) ==
    IF s = <<>> THEN 0
    ELSE 10 * DigitsValue(SubSeq(s, 1, Len(s) - 1)) + DigitVal[s[Len(s)]]

\* float(s) over the alphabet of digits, '.', '+', '-' and characters that no
\* float literal contains: an optional sign, then digits with at most one
\* point and at least one digit.  Anything else raises ValueError.
PyFloat(s) ==
    LET signed == s # <<>> /\ Head(s) \in {"+", "-"}
        body == IF signed THEN Tail(s) ELSE s
        points == {i \in 1..Len(body) : body[i] = "."}
        digits == RemoveChar(body, ".")
        wellFormed == /\ \A i \in 1..Len(body) : body[i] \in Digits \cup {"."}
                      /\ Cardinality(points) <= 1
                      /\ Len(digits) >= 1
    IN  IF ~wellFormed THEN [ok |-> FALSE, value |-> Num(0)]
        ELSE LET frac == IF points = {} THEN 0
                         ELSE Len(body) - (CHOOSE i \in points : TRUE)
                 mant == DigitsValue(digits)
                 den == Pow10(frac)
                 g == Gcd(den, mant)
                 sgn == IF signed /\ Head(s) = "-" THEN 0 - 1 ELSE 1
             IN  [ok |-> TRUE, value |-> Rat(sgn * (mant \div g), den \div g)]

\* [float(c) for c in fields]: the values, or the failure of the first bad one
RECURSIVE FloatAll(_)
FloatAll(fields) ==
    IF fields = <<>> THEN [ok |-> TRUE, values |-> <<>>]
    ELSE LET f == PyFloat(Head(fields))
             rest == FloatAll(Tail(fields))
         IN  IF ~f.ok THEN [ok |-> FALSE, values |-> <<>>]
             ELSE IF ~rest.ok THEN rest
             ELSE [ok |-> TRUE, values |-> <<f.value>> \o rest.values]

IndexErrorText == "list index out of range"
ValueErrorText == "could not convert string to float"

\* Variant: coords[0] and coords[1] exchanged.
ParsePoseSwapped(pose_str) ==
    LET parts == Split(RemoveChar(pose_str, ")"), "(")
    IN  IF Len(parts) < 2
        THEN [ok |-> FALSE, error |-> IndexErrorText, coords |-> <<>>]
        ELSE LET coords == FloatAll(Split(parts[2], ","))
             IN  IF ~coords.ok
                 THEN [ok |-> FALSE, error |-> ValueErrorText, coords |-> <<>>]
                 ELSE IF Len(coords.values) < 4
                 THEN [ok |-> FALSE, error |-> IndexErrorText, coords |-> <<>>]
                 ELSE [ok |-> TRUE, error |-> "",
                       coords |-> <<coords.values[2], coords.values[1],
                                    coords.values[3], coords.values[4]>>]

\* Lines 150-161: the parse of the GetPose reply, or the exception it raises.
ParsePose(pose_str) ==
    LET parts == Split(RemoveChar(pose_str, ")"), "(")
    IN  IF Len(parts) < 2
        THEN [ok |-> FALSE, error |-> IndexErrorText, coords |-> <<>>]
        ELSE LET coords == FloatAll(Split(parts[2], ","))
             IN  IF ~coords.ok
                 THEN [ok |-> FALSE, error |-> ValueErrorText, coords |-> <<>>]
                 ELSE IF Len(coords.values) < 4
                 THEN [ok |-> FALSE, error |-> IndexErrorText, coords |-> <<>>]
                 ELSE [ok |-> TRUE, error |-> "",
                       coords |-> SubSeq(coords.values, 1, 4)]

----------------------------------------------------------------------------
(* Routes: the @app.route decorators *)

CheckPath == <<"/", "a", "p", "i", "/", "c", "o", "n", "n", "e", "c", "t", "i", "o", "n",
               "/", "c", "h", "e", "c", "k">>
RobotPath == <<"/", "a", "p", "i", "/", "r", "o", "b", "o", "t", "/">>
EnablePath == RobotPath \o <<"e", "n", "a", "b", "l", "e">>
DisablePath == RobotPath \o <<"d", "i", "s", "a", "b", "l", "e">>
StopPath == RobotPath \o <<"s", "t", "o", "p">>
PositionPath == RobotPath \o <<"p", "o", "s", "i", "t", "i", "o", "n">>
MoveJPath == RobotPath \o <<"m", "o", "v", "e", "/", "j">>
MoveLPath == RobotPath \o <<"m", "o", "v", "e", "/", "l">>
SpeedPath == RobotPath \o <<"s", "p", "e", "e", "d">>

MovePaths == {MoveJPath, MoveLPath}

\* The endpoints that start with check_dobot_connection()
Protected == {"enable_robot", "disable_robot", "stop_robot", "get_position",
              "move_robot", "set_speed"}

----------------------------------------------------------------------------
(* The vendor clients, seen from the handlers: a call returns a reply or raises *)

NoCall == [chan |-> "none", cmd |-> "none", args |-> <<>>]
RemoteCall(chan, cmd, args) == [chan |-> chan, cmd |-> cmd, args |-> args]

RobotReplies == {<<"0", ",", "{", "}">>, <<"-", "1", ",", "{", "}">>}
FaultTexts == {"timed out", "Connection reset by peer"}

Returned(v) == [raised |-> FALSE, value |-> v, text |-> ""]
Raised(f) == [raised |-> TRUE, value |-> <<>>, text |-> f]

RemoteOutcomes == {Returned(v) : v \in RobotReplies} \cup {Raised(f) : f \in FaultTexts}

\* What GetPose may send: a prefix, then the fields joined by commas, bare,
\* parenthesised, or parenthesised and followed by ';'.
RECURSIVE Join(_)
Join(fields) ==
    IF fields = <<>> THEN <<>>
    ELSE IF Len(fields) = 1 THEN Head(fields)
    ELSE Head(fields) \o <<",">> \o Join(Tail(fields))

Render(shape) ==
    shape.prefix \o
    (CASE shape.wrapper = "bare" -> Join(shape.fields)
       [] shape.wrapper = "parens" -> <<"(">> \o Join(shape.fields) \o <<")">>
       [] shape.wrapper = "call" -> <<"(">> \o Join(shape.fields) \o <<")", ";">>)

NoShape == [prefix |-> <<>>, wrapper |-> "none", fields |-> <<>>]

----------------------------------------------------------------------------
(* Responses *)

NoRequest == [endpoint |-> "none", path |-> <<>>, body |-> Missing]
NoResponse == [code |-> 0, body |-> [status |-> "none"]]

NotConnectedText == "Dobot is not connected. Check the server logs for details."
MoveInvalidText == "Invalid payload. Required keys: x, y, z, r"
SpeedInvalidText == "Invalid payload. Required key: ratio"
SpeedRangeText == "Speed ratio must be between 1 and 100."

ErrorBody(message) == [status |-> "error", message |-> message]
SuccessBody(message, result) ==
    [status |-> "success", message |-> message, robot_response |-> result]

\* What Flask itself answers: an exception that escapes the view (500) or an
\* abort raised inside get_json (400, 415).
FrameworkBody(what) == [status |-> "framework", message |-> <<what>>]

\* Variant: a handler that does not test the handles.
check_dobot_connection_skipped ==
    [connected |-> TRUE, code |-> 200, body |-> ErrorBody(<<>>)]

\* Lines 50-57
check_dobot_connection ==
    IF dashboard = None \/ move = None \/ feed = None
    THEN [connected |-> FALSE, code |-> 503, body |-> ErrorBody(<<NotConnectedText>>)]
    ELSE [connected |-> TRUE, code |-> 200, body |-> ErrorBody(<<>>)]

----------------------------------------------------------------------------
(* State updates shared by the handlers *)

\* The worker takes a request off the socket and enters the view function.
Accept(t, endpoint, path, body) ==
    /\ pc[t] = "idle"
    /\ request' = [request EXCEPT ![t] =
                      [endpoint |-> endpoint, path |-> path, body |-> body]]

Serving(t, endpoint) ==
    /\ pc[t] = "calling"
    /\ request[t].endpoint = endpoint

\* `return jsonify(...), code`, or an exception leaving the view
Reply(t, code, body) ==
    /\ pc' = [pc EXCEPT ![t] = "responded"]
    /\ active' = [active EXCEPT ![t] = NoCall]
    /\ response' = [response EXCEPT ![t] = [code |-> code, body |-> body]]

\* Variant: a per-channel lock taken around the call.
InvokeLocked(t, chan, cmd, args) ==
    /\ \A u \in Workers : active[u].chan # chan
    /\ pc' = [pc EXCEPT ![t] = "calling"]
    /\ active' = [active EXCEPT ![t] = RemoteCall(chan, cmd, args)]
    /\ issued' = [issued EXCEPT ![t] = Append(@, RemoteCall(chan, cmd, args))]
    /\ UNCHANGED response

\* Variant: a dashboard command that is sent again (a retry).
InvokeTwice(t, chan, cmd, args) ==
    /\ pc' = [pc EXCEPT ![t] = "calling"]
    /\ active' = [active EXCEPT ![t] = RemoteCall(chan, cmd, args)]
    /\ issued' = [issued EXCEPT ![t] =
                     IF chan = "dashboard"
                     THEN @ \o <<RemoteCall(chan, cmd, args), RemoteCall(chan, cmd, args)>>
                     ELSE Append(@, RemoteCall(chan, cmd, args))]
    /\ UNCHANGED response

\* handle.cmd(args): the worker blocks until the remote side answers
Invoke(t, chan, cmd, args) ==
    /\ pc' = [pc EXCEPT ![t] = "calling"]
    /\ active' = [active EXCEPT ![t] = RemoteCall(chan, cmd, args)]
    /\ issued' = [issued EXCEPT ![t] = Append(@, RemoteCall(chan, cmd, args))]
    /\ UNCHANGED response

\* the blocked call comes back with `outcome`
Resume(t, outcome) ==
    returned' = [returned EXCEPT ![t] = Append(@, outcome)]

Handles == <<dashboard, move, feed, connectFault>>

----------------------------------------------------------------------------
(* GET /api/connection/check: lines 67-99 *)

\* Variant: move and feed reported from their handles alone.
StatusBodyFromHandles(dashboardAlive) ==
    [dashboard |-> dashboardAlive, move |-> move # None, feed |-> feed # None]

StatusBody(dashboardAlive) ==
    [dashboard |-> dashboardAlive,
     move |-> (move # None /\ dashboardAlive),
     feed |-> (feed # None /\ dashboardAlive)]

connection_check(t) ==
    /\ Accept(t, "connection_check", CheckPath, Missing)
    /\ IF dashboard # None
       THEN Invoke(t, "dashboard", "GetErrorID", <<>>)
       ELSE Reply(t, 200, StatusBody(FALSE)) /\ UNCHANGED issued
    /\ UNCHANGED <<Handles, returned, robotSaid>>

connection_check_returns(t) ==
    /\ Serving(t, "connection_check")
    /\ \E outcome \in RemoteOutcomes :
          /\ Resume(t, outcome)
          /\ Reply(t, 200, StatusBody(~outcome.raised))
    /\ UNCHANGED <<Handles, request, issued, robotSaid>>

----------------------------------------------------------------------------
(* POST enable / disable / stop: lines 101-138 *)

enable_robot(t, bodies) ==
    \E body \in bodies :
        /\ Accept(t, "enable_robot", EnablePath, body)
        /\ LET c == check_dobot_connection
           IN  IF ~c.connected
               THEN Reply(t, c.code, c.body) /\ UNCHANGED issued
               ELSE Invoke(t, "dashboard", "EnableRobot", <<>>)
        /\ UNCHANGED <<Handles, returned, robotSaid>>

enable_robot_returns(t) ==
    /\ Serving(t, "enable_robot")
    /\ \E outcome \in RemoteOutcomes :
          /\ Resume(t, outcome)
          /\ IF outcome.raised
             THEN Reply(t, 500, ErrorBody(<<outcome.text>>))
             ELSE Reply(t, 200, SuccessBody(<<"Robot enabled.">>, outcome.value))
    /\ UNCHANGED <<Handles, request, issued, robotSaid>>

disable_robot(t, bodies) ==
    \E body \in bodies :
        /\ Accept(t, "disable_robot", DisablePath, body)
        /\ LET c == check_dobot_connection
           IN  IF ~c.connected
               THEN Reply(t, c.code, c.body) /\ UNCHANGED issued
               ELSE Invoke(t, "dashboard", "DisableRobot", <<>>)
        /\ UNCHANGED <<Handles, returned, robotSaid>>

disable_robot_returns(t) ==
    /\ Serving(t, "disable_robot")
    /\ \E outcome \in RemoteOutcomes :
          /\ Resume(t, outcome)
          /\ IF outcome.raised
             THEN Reply(t, 500, ErrorBody(<<outcome.text>>))
             ELSE Reply(t, 200, SuccessBody(<<"Robot disabled.">>, outcome.value))
    /\ UNCHANGED <<Handles, request, issued, robotSaid>>

stop_robot(t, bodies) ==
    \E body \in bodies :
        /\ Accept(t, "stop_robot", StopPath, body)
        /\ LET c == check_dobot_connection
           IN  IF ~c.connected
               THEN Reply(t, c.code, c.body) /\ UNCHANGED issued
               ELSE Invoke(t, "dashboard", "ResetRobot", <<>>)
        /\ UNCHANGED <<Handles, returned, robotSaid>>

stop_robot_returns(t) ==
    /\ Serving(t, "stop_robot")
    /\ \E outcome \in RemoteOutcomes :
          /\ Resume(t, outcome)
          /\ IF outcome.raised
             THEN Reply(t, 500, ErrorBody(<<outcome.text>>))
             ELSE Reply(t, 200, SuccessBody(<<"Robot stopped and queue cleared.">>, outcome.value))
    /\ UNCHANGED <<Handles, request, issued, robotSaid>>

----------------------------------------------------------------------------
(* GET /api/robot/position: lines 140-165 *)

ParseFailedPrefix == "Failed to parse position: "

get_position(t, bodies) ==
    \E body \in bodies :
        /\ Accept(t, "get_position", PositionPath, body)
        /\ LET c == check_dobot_connection
           IN  IF ~c.connected
               THEN Reply(t, c.code, c.body) /\ UNCHANGED issued
               ELSE Invoke(t, "dashboard", "GetPose", <<>>)
        /\ UNCHANGED <<Handles, returned, robotSaid>>

get_position_returns(t, shapes) ==
    /\ Serving(t, "get_position")
    /\ \/ \E f \in FaultTexts :
             /\ Resume(t, Raised(f))
             /\ Reply(t, 500, ErrorBody(<<ParseFailedPrefix, f>>))
             /\ UNCHANGED robotSaid
       \/ \E shape \in shapes :
             LET pose_str == Render(shape)
                 parsed == ParsePose(pose_str)
             IN  /\ Resume(t, Returned(pose_str))
                 /\ robotSaid' = [robotSaid EXCEPT ![t] = shape]
                 /\ IF parsed.ok
                    THEN Reply(t, 200,
                               [status |-> "success",
                                position |-> [x |-> parsed.coords[1],
                                              y |-> parsed.coords[2],
                                              z |-> parsed.coords[3],
                                              r |-> parsed.coords[4]],
                                robot_response |-> pose_str])
                    ELSE Reply(t, 500, ErrorBody(<<ParseFailedPrefix, parsed.error>>))
    /\ UNCHANGED <<Handles, request, issued>>

----------------------------------------------------------------------------
(* POST /api/robot/move/j and /api/robot/move/l: lines 167-204 *)

\* Variant: the URL is not consulted.
MoveTypeAlwaysJ(path) == "MovJ"

\* 'MovJ' if 'move/j' in request.path else 'MovL'
MoveType(path) ==
    IF IsSubstring(<<"m", "o", "v", "e", "/", "j">>, path) THEN "MovJ" ELSE "MovL"

Answer(code, body) == [invoke |-> FALSE, code |-> code, body |-> body, call |-> NoCall]
Proceed(call) == [invoke |-> TRUE, code |-> 0, body |-> ErrorBody(<<>>), call |-> call]

\* Lines 179-192 for one outcome g of request.get_json(): the early answer,
\* the exception that leaves the view, or the first remote call.
ValidateMove(path, g) ==
    IF g.aborted THEN Answer(g.code, FrameworkBody("abort"))
    ELSE IF ~Truthy(g.data) THEN Answer(400, ErrorBody(<<MoveInvalidText>>))
    ELSE LET has == AllIn(<<"x", "y", "z", "r">>, g.data)
         IN  IF has = "TypeError" THEN Answer(500, FrameworkBody("TypeError"))
             ELSE IF has = "False" THEN Answer(400, ErrorBody(<<MoveInvalidText>>))
             ELSE IF ~Subscriptable(g.data) THEN Answer(500, FrameworkBody("TypeError"))
             ELSE Proceed(RemoteCall("move", MoveType(path),
                                     <<g.data.members.x, g.data.members.y,
                                       g.data.members.z, g.data.members.r>>))

move_robot(t, bodies) ==
    \E path \in MovePaths, body \in bodies :
        /\ Accept(t, "move_robot", path, body)
        /\ LET c == check_dobot_connection
           IN  IF ~c.connected
               THEN Reply(t, c.code, c.body) /\ UNCHANGED issued
               ELSE \E g \in get_json(body) :
                       LET v == ValidateMove(path, g)
                       IN  IF v.invoke
                           THEN Invoke(t, v.call.chan, v.call.cmd, v.call.args)
                           ELSE Reply(t, v.code, v.body) /\ UNCHANGED issued
        /\ UNCHANGED <<Handles, returned, robotSaid>>

\* MovJ / MovL came back: fault -> 500, otherwise move.Sync()
move_robot_moved(t) ==
    /\ Serving(t, "move_robot")
    /\ active[t].cmd \in {"MovJ", "MovL"}
    /\ \E outcome \in RemoteOutcomes :
          /\ Resume(t, outcome)
          /\ IF outcome.raised
             THEN Reply(t, 500, ErrorBody(<<outcome.text>>)) /\ UNCHANGED issued
             ELSE Invoke(t, "move", "Sync", <<>>)
    /\ UNCHANGED <<Handles, request, robotSaid>>

\* Sync came back: fault -> 500, otherwise the success envelope with `result`
move_robot_synced(t) ==
    /\ Serving(t, "move_robot")
    /\ active[t].cmd = "Sync"
    /\ \E outcome \in RemoteOutcomes :
          /\ Resume(t, outcome)
          /\ IF outcome.raised
             THEN Reply(t, 500, ErrorBody(<<outcome.text>>))
             ELSE LET a == issued[t][1].args
                  IN  Reply(t, 200,
                            SuccessBody(<<"Executing ", issued[t][1].cmd, " to (",
                                          a[1], ", ", a[2], ", ", a[3], ", ", a[4],
                                          ") and waiting for completion.">>,
                                        returned[t][1].value))
    /\ UNCHANGED <<Handles, request, issued, robotSaid>>

----------------------------------------------------------------------------
(* POST /api/robot/speed: lines 206-229 *)

\* Variant: 1 < ratio <= 100.
ValidateSpeedOffByOne(g) ==
    IF g.aborted THEN Answer(g.code, FrameworkBody("abort"))
    ELSE IF ~Truthy(g.data) THEN Answer(400, ErrorBody(<<SpeedInvalidText>>))
    ELSE LET has == Contains("ratio", g.data)
         IN  IF has = "TypeError" THEN Answer(500, FrameworkBody("TypeError"))
             ELSE IF has = "False" THEN Answer(400, ErrorBody(<<SpeedInvalidText>>))
             ELSE IF ~Subscriptable(g.data) THEN Answer(500, FrameworkBody("TypeError"))
             ELSE LET ratio == g.data.members.ratio
                      ok == IF ratio.type = "number"
                            THEN IF SpeedMin * ratio.d < ratio.n
                                    /\ ratio.n <= SpeedMax * ratio.d
                                 THEN "True" ELSE "False"
                            ELSE InSpeedRange(ratio)
                  IN  IF ok = "TypeError"
                      THEN Answer(500, FrameworkBody("TypeError"))
                      ELSE IF ok = "False"
                      THEN Answer(400, ErrorBody(<<SpeedRangeText>>))
                      ELSE Proceed(RemoteCall("dashboard", "SpeedFactor", <<ratio>>))

\* Lines 217-226 for one outcome g of request.get_json()
ValidateSpeed(g) ==
    IF g.aborted THEN Answer(g.code, FrameworkBody("abort"))
    ELSE IF ~Truthy(g.data) THEN Answer(400, ErrorBody(<<SpeedInvalidText>>))
    ELSE LET has == Contains("ratio", g.data)
         IN  IF has = "TypeError" THEN Answer(500, FrameworkBody("TypeError"))
             ELSE IF has = "False" THEN Answer(400, ErrorBody(<<SpeedInvalidText>>))
             ELSE IF ~Subscriptable(g.data) THEN Answer(500, FrameworkBody("TypeError"))
             ELSE LET ratio == g.data.members.ratio
                      ok == InSpeedRange(ratio)
                  IN  IF ok = "TypeError"
                      THEN Answer(500, FrameworkBody("TypeError"))
                      ELSE IF ok = "False"
                      THEN Answer(400, ErrorBody(<<SpeedRangeText>>))
                      ELSE Proceed(RemoteCall("dashboard", "SpeedFactor", <<ratio>>))

set_speed(t, bodies) ==
    \E body \in bodies :
        /\ Accept(t, "set_speed", SpeedPath, body)
        /\ LET c == check_dobot_connection
           IN  IF ~c.connected
               THEN Reply(t, c.code, c.body) /\ UNCHANGED issued
               ELSE \E g \in get_json(body) :
                       LET v == ValidateSpeed(g)
                       IN  IF v.invoke
                           THEN Invoke(t, v.call.chan, v.call.cmd, v.call.args)
                           ELSE Reply(t, v.code, v.body) /\ UNCHANGED issued
        /\ UNCHANGED <<Handles, returned, robotSaid>>

set_speed_returns(t) ==
    /\ Serving(t, "set_speed")
    /\ \E outcome \in RemoteOutcomes :
          /\ Resume(t, outcome)
          /\ IF outcome.raised
             THEN Reply(t, 500, ErrorBody(<<outcome.text>>))
             ELSE Reply(t, 200,
                        SuccessBody(<<"Global speed set to ", issued[t][1].args[1], "%.">>,
                                    outcome.value))
    /\ UNCHANGED <<Handles, request, issued, robotSaid>>

----------------------------------------------------------------------------
(* The response is sent and the worker takes the next request *)

Done(t) ==
    /\ pc[t] = "responded"
    /\ pc' = [pc EXCEPT ![t] = "idle"]
    /\ request' = [request EXCEPT ![t] = NoRequest]
    /\ issued' = [issued EXCEPT ![t] = <<>>]
    /\ returned' = [returned EXCEPT ![t] = <<>>]
    /\ robotSaid' = [robotSaid EXCEPT ![t] = NoShape]
    /\ response' = [response EXCEPT ![t] = NoResponse]
    /\ UNCHANGED <<Handles, active>>

----------------------------------------------------------------------------
(* Inputs *)

MoveKeys == {"x", "y", "z", "r"}

Point1 == [x |-> Num(200), y |-> Num(100), z |-> Num(50), r |-> Num(0)]
Point2 == [x |-> Rat(21, 2), y |-> Num(0 - 20), z |-> Num(30), r |-> Num(45)]
Points == {Point1, Point2}

KeyStr(k) == Str(KeyChars[k])

\* JSON values that are not objects
NonObjects ==
    {Null, Bool(FALSE), Bool(TRUE), Num(0), Num(5),
     Str(<<>>), Str(<<"a", "b", "c">>), Str(<<"x", "y", "z", "r">>),
     Str(KeyChars.ratio),
     Arr(<<>>), Arr(<<KeyStr("x")>>), Arr(<<KeyStr("ratio")>>),
     Arr(<<KeyStr("x"), KeyStr("y"), KeyStr("z"), KeyStr("r")>>)}

MoveObjects == {Obj([k \in S |-> p[k]]) : S \in SUBSET MoveKeys, p \in Points}

AllMoveBodies == {Missing, Malformed} \cup NonObjects \cup MoveObjects

RatioNumbers ==
    {Num(k) : k \in (SpeedMin - RatioMargin)..(SpeedMax + RatioMargin)}
    \cup {Rat(2 * k + 1, 2) : k \in {0 - 1, 0, 1, SpeedMax - 1, SpeedMax}}

RatioValues ==
    RatioNumbers \cup {Null, Bool(FALSE), Bool(TRUE), Str(<<"5", "0">>)}

AllSpeedBodies ==
    {Missing, Malformed, Obj([k \in {} |-> Null])} \cup NonObjects
    \cup {Obj([ratio |-> v]) : v \in RatioValues}

AllPlainBodies == {Missing, Malformed, Obj(Point1)}

\* Field texts the robot may put between the commas
FieldTexts == {<<"1", ".", "0">>, <<"2", ".", "5">>, <<"-", "3">>, <<"x">>, <<>>}

GetPosePrefix == <<"0", ",", "{", "}", ",", "G", "e", "t", "P", "o", "s", "e">>
Prefixes == {<<>>, GetPosePrefix, <<"p", "(">>}
Wrappers == {"bare", "parens", "call"}

FieldLists == UNION {[1..n -> FieldTexts] : n \in 0..MaxFields}

AllPoseShapes ==
    {[prefix |-> p, wrapper |-> w, fields |-> fs] :
        p \in Prefixes, w \in Wrappers, fs \in FieldLists}

\* The inputs used when several workers run at once
SomePlainBodies == {Missing}
SomeMoveBodies ==
    {Num(5), Obj([k \in {"x", "y", "z"} |-> Point1[k]]), Obj(Point1), Obj(Point2)}
SomeSpeedBodies == {Missing, Obj([ratio |-> Num(0)]), Obj([ratio |-> Num(80)])}
SomePoseShapes ==
    {[prefix |-> GetPosePrefix, wrapper |-> "parens",
      fields |-> <<<<"1", ".", "0">>, <<"2", ".", "5">>, <<"-", "3">>, <<"1", ".", "0">>>>],
     [prefix |-> GetPosePrefix, wrapper |-> "call", fields |-> <<>>]}

----------------------------------------------------------------------------
(* Specifications *)

Init ==
    /\ connectFault \in 0..3
    /\ dashboard = ConnectAll(connectFault).dashboard
    /\ move = ConnectAll(connectFault).move
    /\ feed = ConnectAll(connectFault).feed
    /\ pc = [t \in Workers |-> "idle"]
    /\ request = [t \in Workers |-> NoRequest]
    /\ active = [t \in Workers |-> NoCall]
    /\ issued = [t \in Workers |-> <<>>]
    /\ returned = [t \in Workers |-> <<>>]
    /\ robotSaid = [t \in Workers |-> NoShape]
    /\ response = [t \in Workers |-> NoResponse]

Serve(t, plainBodies, moveBodies, speedBodies, poseShapes) ==
    \/ connection_check(t)
    \/ connection_check_returns(t)
    \/ enable_robot(t, plainBodies)
    \/ enable_robot_returns(t)
    \/ disable_robot(t, plainBodies)
    \/ disable_robot_returns(t)
    \/ stop_robot(t, plainBodies)
    \/ stop_robot_returns(t)
    \/ get_position(t, plainBodies)
    \/ get_position_returns(t, poseShapes)
    \/ move_robot(t, moveBodies)
    \/ move_robot_moved(t)
    \/ move_robot_synced(t)
    \/ set_speed(t, speedBodies)
    \/ set_speed_returns(t)
    \/ Done(t)

\* Flask's threaded server: every worker may be serving a request
Next ==
    \E t \in Workers :
        Serve(t, SomePlainBodies, SomeMoveBodies, SomeSpeedBodies, SomePoseShapes)

Spec == Init /\ [][Next]_vars

\* One request at a time, over the full input sets
NextInputs == Serve(1, AllPlainBodies, AllMoveBodies, AllSpeedBodies, AllPoseShapes)

SpecInputs == Init /\ [][NextInputs]_vars

----------------------------------------------------------------------------
(* Vocabulary of the properties *)

AllPresent == dashboard # None /\ move # None /\ feed # None
AllAbsent == dashboard = None /\ move = None /\ feed = None

Answered(t) == pc[t] = "responded"
IsJson(body) == body.type \notin {"missing", "malformed"}

NotConnectedResponse == [code |-> 503, body |-> ErrorBody(<<NotConnectedText>>)]
MoveInvalidResponse == [code |-> 400, body |-> ErrorBody(<<MoveInvalidText>>)]

LastOutcome(t) == returned[t][Len(returned[t])]

\* the body is a JSON object that has all of x, y, z, r
ProvidesAll(body) == body.type = "object" /\ MoveKeys \subseteq DOMAIN body.members

\* the body is a JSON object whose ratio is a number
HasNumericRatio(body) ==
    /\ body.type = "object"
    /\ "ratio" \in DOMAIN body.members
    /\ body.members.ratio.type = "number"

\* What each field text denotes, written down independently of PyFloat
Denotes == (<<"1", ".", "0">> :> Num(1)) @@ (<<"2", ".", "5">> :> Rat(5, 2))
           @@ (<<"-", "3">> :> Num(0 - 3))

Numeric(field) == field \in DOMAIN Denotes
HasParen(text) == \E i \in 1..Len(text) : text[i] = "("

----------------------------------------------------------------------------
(* C1 *)

\* C1: while a connection handle is absent, a request to a protected endpoint
\* is never inside a remote call, has issued none, and its answer is 503 with
\* the not-connected message, whatever its body is.
C1_Absent503 ==
    (dashboard = None \/ move = None \/ feed = None) =>
        \A t \in Workers :
            request[t].endpoint \in Protected =>
                /\ issued[t] = <<>>
                /\ pc[t] # "calling"
                /\ Answered(t) => response[t] = NotConnectedResponse

C1_Witness ==
    \E t \in Workers :
        /\ AllAbsent
        /\ Answered(t)
        /\ request[t].endpoint = "move_robot"
        /\ request[t].body = Malformed
        /\ response[t].code = 503

----------------------------------------------------------------------------
(* C2 *)

\* C2: for every command endpoint, when the remote call raises, the answer is
\* 500 and its message is exactly the fault's text.
C2_FaultVerbatim ==
    \A t \in Workers :
        (/\ Answered(t)
         /\ request[t].endpoint \in Protected
         /\ returned[t] # <<>>
         /\ LastOutcome(t).raised)
        => /\ response[t].code = 500
           /\ response[t].body = ErrorBody(<<LastOutcome(t).text>>)

----------------------------------------------------------------------------
(* C3 *)

\* C3: with the handles present, a move request whose JSON body does not
\* provide all of x, y, z, r is answered 400 with the invalid-payload message
\* and issues no remote call.
C3_IncompleteMove400 ==
    \A t \in Workers :
        (/\ AllPresent
         /\ Answered(t)
         /\ request[t].endpoint = "move_robot"
         /\ IsJson(request[t].body)
         /\ ~ProvidesAll(request[t].body))
        => /\ response[t] = MoveInvalidResponse
           /\ issued[t] = <<>>

----------------------------------------------------------------------------
(* C4 *)

\* C4: with the handles present, a speed request whose ratio is a number
\* outside [1,100] is answered 400 without calling SpeedFactor; one whose
\* ratio is an integer in [1,100] calls SpeedFactor with that ratio, once, and
\* is answered with success when the call does not raise.
C4_SpeedRange ==
    \A t \in Workers :
        (/\ AllPresent
         /\ pc[t] # "idle"
         /\ request[t].endpoint = "set_speed"
         /\ HasNumericRatio(request[t].body))
        => LET ratio == request[t].body.members.ratio
               outside == ratio.n < ratio.d \/ ratio.n > 100 * ratio.d
               inside == ratio.d = 1 /\ 1 <= ratio.n /\ ratio.n <= 100
           IN  /\ outside => /\ Answered(t)
                             /\ response[t].code = 400
                             /\ issued[t] = <<>>
               /\ inside => /\ issued[t] = <<RemoteCall("dashboard", "SpeedFactor", <<ratio>>)>>
                            /\ (Answered(t) /\ ~LastOutcome(t).raised)
                                  => /\ response[t].code = 200
                                     /\ response[t].body.status = "success"

C4_Witness ==
    \E t \in Workers :
        /\ Answered(t)
        /\ request[t].endpoint = "set_speed"
        /\ request[t].body = Obj([ratio |-> Num(1)])
        /\ issued[t] = <<RemoteCall("dashboard", "SpeedFactor", <<Num(1)>>)>>
        /\ response[t].code = 200

----------------------------------------------------------------------------
(* C5 *)

\* the reply was "<prefix>(a,b,c,d)" with four numeric fields
FourNumeric(shape) ==
    /\ shape.wrapper = "parens"
    /\ Len(shape.fields) = 4
    /\ \A i \in 1..4 : Numeric(shape.fields[i])

\* the reply had no '(' at all, or its parenthesised list had fewer than four
\* fields or a non-numeric one
Unparsable(shape) ==
    \/ ~HasParen(Render(shape))
    \/ /\ shape.wrapper = "parens"
       /\ \/ Len(shape.fields) < 4
          \/ \E i \in 1..Len(shape.fields) : ~Numeric(shape.fields[i])

PositionOf(shape) ==
    [x |-> Denotes[shape.fields[1]], y |-> Denotes[shape.fields[2]],
     z |-> Denotes[shape.fields[3]], r |-> Denotes[shape.fields[4]]]

GotReply(t) ==
    /\ AllPresent
    /\ Answered(t)
    /\ request[t].endpoint = "get_position"
    /\ ~LastOutcome(t).raised

ParsedAs(t, shape) ==
    /\ response[t].code = 200
    /\ response[t].body.status = "success"
    /\ response[t].body.position = PositionOf(shape)
    /\ response[t].body.robot_response = Render(shape)

ParseFailed(t) ==
    /\ response[t].code = 500
    /\ response[t].body.status = "error"
    /\ Head(response[t].body.message) = ParseFailedPrefix

\* C5 as stated: any reply "<prefix>(a,b,c,d)" with four numeric fields is
\* answered with x=a, y=b, z=c, r=d and the raw reply; a reply with no '(',
\* with fewer than four fields or with a non-numeric field is answered 500
\* with the failed-to-parse message.
C5_AnyPrefix ==
    \A t \in Workers :
        GotReply(t) =>
            /\ FourNumeric(robotSaid[t]) => ParsedAs(t, robotSaid[t])
            /\ Unparsable(robotSaid[t]) => ParseFailed(t)

\* C5, amended: the same, for a prefix that contains no '('.
C5_ParenFreePrefix ==
    \A t \in Workers :
        GotReply(t) =>
            /\ (FourNumeric(robotSaid[t]) /\ ~HasParen(robotSaid[t].prefix))
                  => ParsedAs(t, robotSaid[t])
            /\ Unparsable(robotSaid[t]) => ParseFailed(t)

C5_Witness ==
    \E t \in Workers :
        /\ GotReply(t)
        /\ robotSaid[t] = [prefix |-> GetPosePrefix, wrapper |-> "parens",
                           fields |-> <<<<"1", ".", "0">>, <<"2", ".", "5">>,
                                        <<"-", "3">>, <<"1", ".", "0">>>>]
        /\ response[t].body.position =
              [x |-> Num(1), y |-> Rat(5, 2), z |-> Num(0 - 3), r |-> Num(1)]

----------------------------------------------------------------------------
(* C6 *)

\* C6: the three handles are all present or all absent in every state; they
\* are all absent when a constructor raised at start-up; and no step of any
\* handler changes a handle.
C6_AllOrNone ==
    /\ [](AllPresent \/ AllAbsent)
    /\ [](connectFault # 0 => AllAbsent)
    /\ [][dashboard' = dashboard /\ move' = move /\ feed' = feed]_vars

C6_Witness ==
    \E t \in Workers :
        /\ connectFault = 3
        /\ AllAbsent
        /\ Answered(t)
        /\ request[t].endpoint = "enable_robot"
        /\ response[t].code = 503

----------------------------------------------------------------------------
(* C7 *)

\* C7: the connection check answers 200; it issues at most one remote call,
\* GetErrorID on the dashboard channel, and none without a dashboard handle;
\* dashboard is reported true exactly when that call was made and did not
\* raise, and move (feed) exactly when dashboard is reported true and the
\* move (feed) handle is present.
C7_ConnectionCheck ==
    \A t \in Workers :
        request[t].endpoint = "connection_check" =>
            /\ issued[t] \in {<<>>, <<RemoteCall("dashboard", "GetErrorID", <<>>)>>}
            /\ dashboard = None => issued[t] = <<>>
            /\ Answered(t) =>
                  LET status == response[t].body
                      alive == /\ issued[t] # <<>>
                               /\ Len(returned[t]) = 1
                               /\ ~returned[t][1].raised
                  IN  /\ response[t].code = 200
                      /\ status.dashboard = alive
                      /\ status.move = (status.dashboard /\ move # None)
                      /\ status.feed = (status.dashboard /\ feed # None)
                      /\ (status.move \/ status.feed) => status.dashboard

C7_Witness ==
    \E t \in Workers :
        /\ AllPresent
        /\ Answered(t)
        /\ request[t].endpoint = "connection_check"
        /\ returned[t][1].raised
        /\ response[t].body = [dashboard |-> FALSE, move |-> FALSE, feed |-> FALSE]

----------------------------------------------------------------------------
(* C8 *)

CommandOf == [enable_robot |-> "EnableRobot", disable_robot |-> "DisableRobot",
              stop_robot |-> "ResetRobot", set_speed |-> "SpeedFactor"]

\* the request passes the handler's input validation
ValidInput(req) ==
    req.endpoint = "set_speed" =>
        /\ HasNumericRatio(req.body)
        /\ req.body.members.ratio.d <= req.body.members.ratio.n
        /\ req.body.members.ratio.n <= 100 * req.body.members.ratio.d

\* C8: a request to enable, disable, stop or speed never issues more than one
\* remote call; one that passes the connection check and input validation
\* issues exactly one, the endpoint's command on the dashboard channel; a
\* success answer carries that call's result as robot_response; a request
\* answered 503 or 400 issued none.
C8_ExactlyOneCall ==
    \A t \in Workers :
        request[t].endpoint \in DOMAIN CommandOf =>
            /\ Len(issued[t]) <= 1
            /\ (AllPresent /\ ValidInput(request[t])) =>
                  /\ Len(issued[t]) = 1
                  /\ issued[t][1].chan = "dashboard"
                  /\ issued[t][1].cmd = CommandOf[request[t].endpoint]
            /\ (Answered(t) /\ response[t].code \in {400, 503}) => issued[t] = <<>>
            /\ (Answered(t) /\ response[t].body.status = "success") =>
                  /\ Len(returned[t]) = 1
                  /\ ~returned[t][1].raised
                  /\ response[t].body.robot_response = returned[t][1].value

C8_Witness ==
    \E t \in Workers :
        /\ Answered(t)
        /\ request[t].endpoint = "set_speed"
        /\ issued[t] = <<RemoteCall("dashboard", "SpeedFactor", <<Num(80)>>)>>
        /\ response[t].body.status = "success"
        /\ response[t].body.robot_response = <<"-", "1", ",", "{", "}">>

----------------------------------------------------------------------------
(* C9 *)

SyncCall == RemoteCall("move", "Sync", <<>>)

\* C9: for a valid move request with the handles present, the remote calls
\* are the move command of the URL with the request's x, y, z, r and then at
\* most one Sync, which is issued only after the move command returned; when
\* the move command raises, Sync is not called and the answer is 500; the
\* success answer exists only once Sync has returned.
C9_MoveThenSync ==
    \A t \in Workers :
        (/\ AllPresent
         /\ request[t].endpoint = "move_robot"
         /\ ProvidesAll(request[t].body))
        => LET m == request[t].body.members
               first == RemoteCall("move",
                                   IF request[t].path = MoveJPath THEN "MovJ" ELSE "MovL",
                                   <<m.x, m.y, m.z, m.r>>)
           IN  /\ issued[t] \in {<<first>>, <<first, SyncCall>>}
               /\ Len(issued[t]) = 2 => (returned[t] # <<>> /\ ~returned[t][1].raised)
               /\ (returned[t] # <<>> /\ returned[t][1].raised) =>
                     /\ issued[t] = <<first>>
                     /\ Answered(t)
                     /\ response[t].code = 500
               /\ (Answered(t) /\ response[t].body.status = "success") =>
                     /\ issued[t] = <<first, SyncCall>>
                     /\ Len(returned[t]) = 2
                     /\ ~returned[t][2].raised
               /\ (Len(returned[t]) = 2 /\ ~returned[t][2].raised) =>
                     /\ Answered(t)
                     /\ response[t].code = 200

C9_Witness ==
    \E t \in Workers :
        /\ Answered(t)
        /\ request[t].path = MoveLPath
        /\ issued[t] = <<RemoteCall("move", "MovL",
                                    <<Rat(21, 2), Num(0 - 20), Num(30), Num(45)>>),
                         SyncCall>>
        /\ response[t].body.status = "success"

----------------------------------------------------------------------------
(* C10 *)

\* worker u starts a request whose first remote call is on channel chan
EntersChannel(u, chan) ==
    \/ /\ chan = "move"
       /\ move_robot(u, SomeMoveBodies)
       /\ active'[u].chan = "move"
    \/ /\ chan = "dashboard"
       /\ enable_robot(u, SomePlainBodies)
       /\ active'[u].chan = "dashboard"

\* worker u, whose move command returned, goes on to Sync
GoesOnToSync(u) == move_robot_moved(u) /\ active'[u] = SyncCall

\* C10: nothing makes a worker wait for another: while a worker is inside a
\* remote call, every idle worker can enter a remote call on the same
\* channel, and every worker whose move command is outstanding can go on to
\* its Sync.
C10_NoMutualExclusion ==
    \A t \in Workers : \A u \in Workers \ {t} :
        pc[t] = "calling" =>
            /\ pc[u] = "idle" => ENABLED EntersChannel(u, active[t].chan)
            /\ (pc[u] = "calling" /\ active[u].cmd \in {"MovJ", "MovL"})
                  => ENABLED GoesOnToSync(u)

\* a second move request issues its move command while the first is in Sync
C10_Witness ==
    \E t \in Workers : \E u \in Workers \ {t} :
        /\ active[t] = SyncCall
        /\ active[u].chan = "move"
        /\ active[u].cmd \in {"MovJ", "MovL"}

====
